---- MODULE Spec2Model ----
(***************************************************************************)
(* Model of components/keystore/keystore.c: the derivation path parser,    *)
(* the keystore lifecycle, PSBT policy checking, change detection and      *)
(* signing, and multisig wallet descriptor validation and registration.    *)
(*                                                                         *)
(* C strings are sequences of one-character strings; the terminating zero  *)
(* byte is the value NUL.  32-bit unsigned values (uint32_t, and size_t on *)
(* the 32-bit target) are records of two 16-bit halves, so that arithmetic *)
(* modulo 2^32 is exact.                                                   *)
(***************************************************************************)
EXTENDS Integers, Sequences, FiniteSets, TLC

VARIABLES root, fingerprint, psbt, output, buf, storage,
          path, before, after, op, ret

vars == <<root, fingerprint, psbt, output, buf, storage,
          path, before, after, op, ret>>

----------------------------------------------------------------------------
(* Bounds of the model                                                     *)

MaxLen == 4          \* longest path string enumerated character by character
MaxAfter == 1        \* mapped bytes that follow a string's terminator
MaxSegments == 2     \* segments of the numeric path inputs
MaxPolicyInputs == 2 \* inputs of a proposal whose keypaths vary
MaxSignInputs == 3   \* inputs of a proposal whose witness UTXOs vary
MaxKeypaths == 2     \* keypaths of one input
MaxCosigners == 2    \* cosigner lines of a descriptor
MaxFiles == 1        \* files the storage holds

----------------------------------------------------------------------------
(* 32-bit unsigned arithmetic                                              *)

Half == 2^16

U32(n) == [hi |-> (n \div Half) % Half, lo |-> n % Half]

U32Add(a, b) ==
    LET l == a.lo + b.lo
    IN [hi |-> (a.hi + b.hi + (l \div Half)) % Half, lo |-> l % Half]

U32Sub(a, b) ==
    LET l == a.lo - b.lo
        borrow == IF l < 0 THEN 1 ELSE 0
    IN [hi |-> (a.hi - b.hi - borrow) % Half, lo |-> l % Half]

U32Mul10Add(a, d) ==
    LET l == a.lo * 10 + d
    IN [hi |-> (a.hi * 10 + (l \div Half)) % Half, lo |-> l % Half]

U32Less(a, b) == a.hi < b.hi \/ (a.hi = b.hi /\ a.lo < b.lo)

BIP32_INITIAL_HARDENED_CHILD == [hi |-> 2^15, lo |-> 0]

----------------------------------------------------------------------------
(* Memory around a C string                                                *)

NUL == "NUL"
FAULT == "FAULT"
NULL == "NULL"

\* The byte at signed offset k from the first character of the string s:
\* the bytes `pre` precede s, the terminator and the bytes `post` follow it,
\* and nothing else is mapped.
ReadByte(pre, s, post, k) ==
    LET mem == pre \o s \o <<NUL>> \o post
        idx == Len(pre) + 1 + k
    IN IF idx \in 1..Len(mem) THEN mem[idx] ELSE FAULT

\* The signed offset a 32-bit pointer difference denotes.
Offset(a) ==
    IF a.hi < 2^15 THEN a.hi * Half + a.lo
    ELSE -((Half - 1 - a.hi) * Half + (Half - a.lo))

\* An offset outside the string and its terminator.
OutOfBounds(s, k) == k < 0 \/ k > Len(s)

----------------------------------------------------------------------------
(* parse_derivation                                                        *)

VALID_CHARS == <<"0", "1", "2", "3", "4", "5", "6", "7", "8", "9", "/", "'", "h">>

\* strchr(VALID_CHARS, c) - VALID_CHARS, or -1 for a NULL result; the
\* terminating zero byte counts as part of the searched string.
strchr(c) ==
    IF c = NUL THEN Len(VALID_CHARS)
    ELSE IF \E k \in 1..Len(VALID_CHARS) : VALID_CHARS[k] = c
         THEN (CHOOSE k \in 1..Len(VALID_CHARS) : VALID_CHARS[k] = c) - 1
         ELSE -1

\* cur[i], with cur = path + off.
CurByte(m, off, i) == ReadByte(m.pre, m.s, m.post, Offset(U32Add(U32(off), i)))
CurOut(m, off, i) == OutOfBounds(m.s, Offset(U32Add(U32(off), i)))

\* First loop: every character is valid; count the separators.
RECURSIVE CountLoop(_, _, _, _, _, _)
CountLoop(m, off, len, i, derivationLen, oob) ==
    IF ~U32Less(i, len) THEN [st |-> "done", derivationLen |-> derivationLen, oob |-> oob]
    ELSE LET c == CurByte(m, off, i)
             o == oob \/ CurOut(m, off, i)
         IN IF c = FAULT THEN [st |-> FAULT, derivationLen |-> derivationLen, oob |-> TRUE]
            ELSE IF strchr(c) = -1
                 THEN [st |-> NULL, derivationLen |-> derivationLen, oob |-> o]
                 ELSE CountLoop(m, off, len, U32Add(i, U32(1)),
                                IF c = "/" THEN derivationLen + 1 ELSE derivationLen, o)

\* calloc(n, sizeof(uint32_t)): n elements, all zero.
RECURSIVE calloc(_)
calloc(n) == IF n = 0 THEN <<>> ELSE Append(calloc(n - 1), U32(0))

StepElement(d, val) ==
    IF val < 10 THEN U32Mul10Add(d, val)
    ELSE U32Add(d, BIP32_INITIAL_HARDENED_CHILD)

\* Second loop: accumulate the digits and the hardening markers.
RECURSIVE FillLoop(_, _, _, _, _, _)
FillLoop(m, off, len, i, derivation, current) ==
    IF ~U32Less(i, len) THEN [st |-> "done", derivation |-> derivation]
    ELSE LET c == CurByte(m, off, i)
         IN IF c = FAULT THEN [st |-> FAULT, derivation |-> derivation]
            ELSE IF c = "/"
                 THEN FillLoop(m, off, len, U32Add(i, U32(1)), derivation, current + 1)
                 ELSE IF ~U32Less(derivation[current + 1], BIP32_INITIAL_HARDENED_CHILD)
                      THEN [st |-> NULL, derivation |-> derivation]
                      ELSE FillLoop(m, off, len, U32Add(i, U32(1)),
                                    [derivation EXCEPT ![current + 1] = StepElement(@, strchr(c))],
                                    current)

\* The result of parse_derivation(path, &derlen) for the string s placed in
\* memory after the bytes pre and before the bytes post:
\*   ret        "OK" (a derivation is returned), NULL, or FAULT (the read of
\*              an unmapped byte);
\*   oob        a byte outside the string and its terminator was read;
\*   underflow  len was decremented below zero.
parse_derivation(pre, s, post) ==
    LET m == [pre |-> pre, s |-> s, post |-> post]
        len0 == U32(Len(s))
        lead == ReadByte(pre, s, post, 0) = "m"
        off == IF lead THEN 2 ELSE 0
        len1 == IF lead THEN U32Sub(len0, U32(2)) ELSE len0
        under1 == lead /\ U32Less(len0, U32(2))
        lastIdx == U32Sub(len1, U32(1))
        last == CurByte(m, off, lastIdx)
        oob1 == CurOut(m, off, lastIdx)
        trail == last = "/"
        len == IF trail THEN U32Sub(len1, U32(1)) ELSE len1
        under == under1 \/ (trail /\ len1 = U32(0))
        cnt == CountLoop(m, off, len, U32(0), 1, oob1)
        fill == FillLoop(m, off, len, U32(0), calloc(cnt.derivationLen), 0)
        none == [ret |-> NULL, derivation |-> <<>>, derlen |-> 0, oob |-> oob1, underflow |-> under]
    IN IF last = FAULT THEN [none EXCEPT !.ret = FAULT, !.oob = TRUE]
       ELSE IF cnt.st = FAULT THEN [none EXCEPT !.ret = FAULT, !.oob = TRUE]
       ELSE IF cnt.st = NULL THEN [none EXCEPT !.oob = cnt.oob]
       ELSE IF fill.st = FAULT THEN [none EXCEPT !.ret = FAULT, !.oob = TRUE]
       ELSE IF fill.st = NULL THEN [none EXCEPT !.oob = cnt.oob]
       ELSE [ret |-> "OK", derivation |-> fill.derivation, derlen |-> cnt.derivationLen,
             oob |-> cnt.oob, underflow |-> under]

----------------------------------------------------------------------------
(* Collaborators: the crypto library and the network table                 *)

Mnemonics == {"mnemonicA", "mnemonicB"}

\* bip39_mnemonic_to_seed followed by bip32_key_from_seed_alloc.
KeyFromSeed(mnemonic) == [seed |-> mnemonic, path |-> <<>>]

\* key->root == NULL.
NullRoot == [seed |-> NULL, path |-> <<>>]

\* The first four bytes of hash160 of a master public key, as 8 hex characters.
Hash160Hex(key) ==
    IF key.seed = "mnemonicA" THEN "a1b2c3d4" ELSE "0f056943"

ForeignFingerprint == "deadbeef"
NoFingerprint == ""
Fingerprints == {Hash160Hex(KeyFromSeed(mn)) : mn \in Mnemonics} \cup {ForeignFingerprint}

\* bip32_key_from_parent_path_alloc: the child key of a parent along a path.
KeyFromParentPath(parent, derivation, len) ==
    [seed |-> parent.seed, path |-> SubSeq(derivation, 1, len)]

Mainnet == [name |-> "main", xpub |-> "xpub", ypub |-> "ypub", zpub |-> "zpub",
            Ypub |-> "Ypub", Zpub |-> "Zpub", bech32 |-> "bc", p2sh |-> "05", p2pkh |-> "00"]
Testnet == [name |-> "test", xpub |-> "tpub", ypub |-> "upub", zpub |-> "vpub",
            Ypub |-> "Upub", Zpub |-> "Vpub", bech32 |-> "tb", p2sh |-> "c4", p2pkh |-> "6f"]
Networks == {Mainnet, Testnet}

\* What a key or a string read from uninitialised or unmapped memory holds.
GarbageKey == [seed |-> "GARBAGE", path |-> <<>>]
GarbageXpub == [ver |-> "GARBAGE", key |-> GarbageKey]
NoXpub == [ver |-> NULL, key |-> GarbageKey]

\* hash160 of a public key, and of the P2WPKH redeem script of a public key.
PubkeyHash(key) == [form |-> "pubkey", key |-> key]
RedeemHash(key) == [form |-> "p2wpkh_redeem", key |-> key]

\* wally_addr_segwit_from_bytes and wally_base58_from_bytes of a prefixed
\* hash: an address names its encoding, its network prefix and the hash.
Address(enc, prefix, hash) == [enc |-> enc, prefix |-> prefix, hash |-> hash]
NoAddress == [enc |-> NULL, prefix |-> NULL, hash |-> PubkeyHash(GarbageKey)]

\* The bytes around a string argument are whatever the caller's memory holds.
Bytes == {"/", "X", NUL}

Hardened(n) == U32Add(BIP32_INITIAL_HARDENED_CHILD, U32(n))

----------------------------------------------------------------------------
(* keystore_init                                                           *)

keystore_init(mnemonic) ==
    /\ IF mnemonic = NULL
       THEN /\ root' = NullRoot
            /\ UNCHANGED fingerprint
       ELSE /\ root' = KeyFromSeed(mnemonic)
            /\ fingerprint' = Hash160Hex(KeyFromSeed(mnemonic))
    /\ op' = [name |-> "keystore_init"]
    /\ ret' = [fault |-> FALSE, rc |-> "0"]
    /\ UNCHANGED <<psbt, output, buf, storage, path, before, after>>

----------------------------------------------------------------------------
(* keystore_get_xpub                                                       *)

\* The version written into the serialized header.
XpubVersion(derivation, len, network, use_slip132) ==
    IF len > 0 /\ use_slip132
    THEN IF derivation[1] = Hardened(84) THEN network.zpub
         ELSE IF derivation[1] = Hardened(49) THEN network.ypub
         ELSE IF derivation[1] = Hardened(48) /\ len >= 4
              THEN IF derivation[4] = Hardened(1) THEN network.Ypub
                   ELSE IF derivation[4] = Hardened(2) THEN network.Zpub
                   ELSE network.xpub
              ELSE network.xpub
    ELSE network.xpub

\* The possible results [fault, rc, xpub] of keystore_get_xpub for the path
\* string s found in memory between the bytes pre and post; xpub is NoXpub
\* when the caller's slot is not written.
keystore_get_xpub(key_root, pre, s, post, network, use_slip132) ==
            LET p == parse_derivation(pre, s, post)
            IN IF p.ret = FAULT THEN {[fault |-> TRUE, rc |-> FAULT, xpub |-> NoXpub]}
               ELSE IF p.ret = NULL THEN {[fault |-> FALSE, rc |-> "-1", xpub |-> NoXpub]}
               ELSE IF key_root = NullRoot
                    THEN {[fault |-> TRUE, rc |-> FAULT, xpub |-> NoXpub],
                          [fault |-> FALSE, rc |-> "0", xpub |-> GarbageXpub]}
                    ELSE {[fault |-> FALSE, rc |-> "0",
                           xpub |-> [ver |-> XpubVersion(p.derivation, p.derlen, network, use_slip132),
                                     key |-> KeyFromParentPath(key_root, p.derivation, p.derlen)]]}

----------------------------------------------------------------------------
(* keystore_get_addr                                                       *)

KEYSTORE_BECH32_ADDRESS == "KEYSTORE_BECH32_ADDRESS"
KEYSTORE_BASE58_ADDRESS == "KEYSTORE_BASE58_ADDRESS"

keystore_get_addr(key_root, pre, s, post, network, flag) ==
            LET p == parse_derivation(pre, s, post)
            IN IF p.ret = FAULT THEN {[fault |-> TRUE, rc |-> FAULT, addr |-> NoAddress]}
               ELSE IF p.ret = NULL THEN {[fault |-> FALSE, rc |-> "-1", addr |-> NoAddress]}
               ELSE IF key_root = NullRoot
                    THEN {[fault |-> TRUE, rc |-> FAULT, addr |-> NoAddress],
                          [fault |-> FALSE, rc |-> "WALLY_EINVAL", addr |-> NoAddress]}
                    ELSE LET child == KeyFromParentPath(key_root, p.derivation, p.derlen)
                         IN {[fault |-> FALSE, rc |-> "0",
                              addr |-> IF flag = KEYSTORE_BECH32_ADDRESS
                                       THEN Address("bech32", network.bech32, PubkeyHash(child))
                                       ELSE Address("base58", network.p2sh, RedeemHash(child))]}

----------------------------------------------------------------------------
(* keystore_check_psbt                                                     *)

KEYSTORE_PSBTERR_CANNOT_SIGN == "KEYSTORE_PSBTERR_CANNOT_SIGN"
KEYSTORE_PSBTERR_MIXED_INPUTS == "KEYSTORE_PSBTERR_MIXED_INPUTS"
KEYSTORE_PSBTERR_UNSUPPORTED_POLICY == "KEYSTORE_PSBTERR_UNSUPPORTED_POLICY"

\* A keypath map is absent (a NULL pointer) or holds items.
NullKeypaths == [null |-> TRUE, items |-> <<>>]
Keypaths(items) == [null |-> FALSE, items |-> items]

\* The inner loop over the keypaths of one input.
CanSign(keypaths, h160) ==
    \E j \in 1..Len(keypaths.items) : keypaths.items[j].fingerprint = h160

\* The loop without its single-key restriction.
RECURSIVE CheckLoopAnyPolicy(_, _, _, _)
CheckLoopAnyPolicy(inputs, h160, i, err) ==
    IF i > Len(inputs) THEN err
    ELSE IF inputs[i].keypaths.null THEN KEYSTORE_PSBTERR_CANNOT_SIGN
    ELSE LET can_sign == CanSign(inputs[i].keypaths, h160)
             err2 == IF can_sign THEN "0" ELSE err
         IN IF ~can_sign /\ err = "0" THEN KEYSTORE_PSBTERR_MIXED_INPUTS
            ELSE CheckLoopAnyPolicy(inputs, h160, i + 1, err2)

\* The loop over the inputs, from input i (counted from 1) on.
RECURSIVE CheckLoop(_, _, _, _)
CheckLoop(inputs, h160, i, err) ==
    IF i > Len(inputs) THEN err
    ELSE IF inputs[i].keypaths.null THEN KEYSTORE_PSBTERR_CANNOT_SIGN
    ELSE LET can_sign == CanSign(inputs[i].keypaths, h160)
             err2 == IF can_sign THEN "0" ELSE err
         IN IF ~can_sign /\ err = "0" THEN KEYSTORE_PSBTERR_MIXED_INPUTS
            ELSE IF Len(inputs[i].keypaths.items) # 1 THEN KEYSTORE_PSBTERR_UNSUPPORTED_POLICY
            ELSE CheckLoop(inputs, h160, i + 1, err2)

\* The possible results of keystore_check_psbt.  With an absent root the
\* hash is taken of the bytes found through a null pointer.
keystore_check_psbt(key_root, p) ==
    IF key_root = NullRoot
    THEN {[fault |-> TRUE, rc |-> FAULT]}
         \cup {[fault |-> FALSE, rc |-> CheckLoop(p.inputs, h, 1, KEYSTORE_PSBTERR_CANNOT_SIGN)]
               : h \in Fingerprints \cup {NoFingerprint}}
    ELSE {[fault |-> FALSE,
           rc |-> CheckLoop(p.inputs, Hash160Hex(key_root), 1, KEYSTORE_PSBTERR_CANNOT_SIGN)]}

----------------------------------------------------------------------------
(* keystore_output_is_change                                               *)

keystore_output_is_change(key_root, p, i) ==
    IF i >= Len(p.outputs) THEN {[fault |-> FALSE, rc |-> "0"]}
    ELSE LET out == p.outputs[i + 1]
         IN IF out.keypaths.null THEN {[fault |-> FALSE, rc |-> "0"]}
            ELSE IF Len(out.keypaths.items) # 1 THEN {[fault |-> FALSE, rc |-> "0"]}
            ELSE IF out.script.type \notin {"P2WPKH", "P2SH", "P2PKH"}
                 THEN {[fault |-> FALSE, rc |-> "0"]}
            ELSE IF key_root = NullRoot
                 THEN {[fault |-> TRUE, rc |-> FAULT],
                       [fault |-> FALSE, rc |-> "0"], [fault |-> FALSE, rc |-> "1"]}
            ELSE LET pk == KeyFromParentPath(key_root, out.keypaths.items[1].path,
                                             Len(out.keypaths.items[1].path))
                     network == Mainnet
                     addr == IF out.script.type = "P2WPKH"
                             THEN Address("bech32", network.bech32, out.script.hash)
                             ELSE IF out.script.type = "P2SH"
                                  THEN Address("base58", network.p2sh, out.script.hash)
                                  ELSE Address("base58", network.p2pkh, out.script.hash)
                     addr2 == IF out.script.type = "P2WPKH"
                              THEN Address("bech32", network.bech32, PubkeyHash(pk))
                              ELSE IF out.script.type = "P2SH"
                                   THEN Address("base58", network.p2sh, RedeemHash(pk))
                                   ELSE Address("base58", network.p2pkh, PubkeyHash(pk))
                 IN {[fault |-> FALSE, rc |-> IF addr = addr2 THEN "1" ELSE "0"]}

----------------------------------------------------------------------------
(* keystore_sign_psbt                                                      *)

\* The partial signature added for input i: the DER signature over the
\* input's signature hash with the SIGHASH_ALL marker, keyed by the public key.
PartialSig(pk, i) ==
    [pub_key |-> pk, sig |-> [key |-> pk, input |-> i, sighash |-> "WALLY_SIGHASH_ALL"]]

\* The loop going on to the next input, instead of returning, at an input
\* without witness UTXO.
RECURSIVE SignLoopSkipping(_, _, _, _)
SignLoopSkipping(key_root, p, i, sigs) ==
    IF i > Len(p.inputs)
    THEN {[fault |-> FALSE, rc |-> "0", output |-> <<[partial_sigs |-> sigs]>>]}
    ELSE IF ~p.inputs[i].witness_utxo
    THEN SignLoopSkipping(key_root, p, i + 1, Append(sigs, {}))
    ELSE IF key_root = NullRoot \/ p.inputs[i].keypaths.null \/ Len(p.inputs[i].keypaths.items) = 0
    THEN {[fault |-> TRUE, rc |-> FAULT, output |-> <<>>]}
         \cup SignLoopSkipping(key_root, p, i + 1, Append(sigs, {PartialSig(GarbageKey, i)}))
    ELSE LET item == p.inputs[i].keypaths.items[1]
             pk == KeyFromParentPath(key_root, item.path, Len(item.path))
         IN SignLoopSkipping(key_root, p, i + 1, Append(sigs, {PartialSig(pk, i)}))

\* The loop over the inputs, from input i (counted from 1) on; sigs are the
\* partial signature sets of signed_psbt.  The results are [fault, rc,
\* output], where output is <<>> when the caller's slot is not written and
\* holds the serialized signed proposal otherwise.
RECURSIVE SignLoop(_, _, _, _)
SignLoop(key_root, p, i, sigs) ==
    IF i > Len(p.inputs)
    THEN {[fault |-> FALSE, rc |-> "0", output |-> <<[partial_sigs |-> sigs]>>]}
    ELSE IF ~p.inputs[i].witness_utxo
    THEN {[fault |-> FALSE, rc |-> "-1", output |-> <<>>]}
    ELSE IF key_root = NullRoot \/ p.inputs[i].keypaths.null \/ Len(p.inputs[i].keypaths.items) = 0
    THEN {[fault |-> TRUE, rc |-> FAULT, output |-> <<>>]}
         \cup SignLoop(key_root, p, i + 1, Append(sigs, {PartialSig(GarbageKey, i)}))
    ELSE LET item == p.inputs[i].keypaths.items[1]
             pk == KeyFromParentPath(key_root, item.path, Len(item.path))
         IN SignLoop(key_root, p, i + 1, Append(sigs, {PartialSig(pk, i)}))

keystore_sign_psbt(key_root, p) == SignLoop(key_root, p, 1, <<>>)

----------------------------------------------------------------------------
(* keystore_check_wallet                                                   *)

KEYSTORE_WALLET_ERR_NOT_INCLUDED == "KEYSTORE_WALLET_ERR_NOT_INCLUDED"
KEYSTORE_WALLET_ERR_PARSING == "KEYSTORE_WALLET_ERR_PARSING"
KEYSTORE_WALLET_ERR_WRONG_XPUB == "KEYSTORE_WALLET_ERR_WRONG_XPUB"

\* A descriptor text, as sscanf takes it apart: header tells whether the
\* name, type, m and n fields convert, n is the converted cosigner count, and
\* each line is "[fingerprint/path]xpub" (ok) or something else (not ok).

\* The results of comparing the recorded xpub of one line of this keystore:
\* "match", "mismatch" or FAULT.  The path is the text after the ninth
\* character of the derivation buffer: a '/' precedes it and the byte post,
\* whatever the buffer held before, follows its terminator.
CompareOwnLine(key_root, network, line, post) ==
    UNION { IF mypub.fault \/ myslippub.fault THEN {FAULT}
            ELSE IF myslippub.rc = "-1" THEN {"mismatch"}
            ELSE IF mypub.xpub = GarbageXpub \/ myslippub.xpub = GarbageXpub
                 THEN {"match", "mismatch"}
            ELSE IF mypub.xpub = line.xpub \/ myslippub.xpub = line.xpub
                 THEN {"match"}
                 ELSE {"mismatch"}
          : mypub \in keystore_get_xpub(key_root, <<"/">>, line.path, post, network, FALSE),
            myslippub \in keystore_get_xpub(key_root, <<"/">>, line.path, post, network, FALSE) }

\* The loop over the n cosigner lines, from line i (counted from 1) on.
RECURSIVE WalletLoop(_, _, _, _, _, _)
WalletLoop(key_root, key_fingerprint, network, b, i, err) ==
    IF i > b.n THEN {err}
    ELSE IF i > Len(b.lines) \/ ~b.lines[i].ok THEN {KEYSTORE_WALLET_ERR_PARSING}
    ELSE IF b.lines[i].fingerprint = key_fingerprint
    THEN UNION { IF c = FAULT THEN {FAULT}
                 ELSE IF c = "mismatch" THEN {KEYSTORE_WALLET_ERR_WRONG_XPUB}
                 ELSE WalletLoop(key_root, key_fingerprint, network, b, i + 1, "0")
               : c \in UNION {CompareOwnLine(key_root, network, b.lines[i], <<a>>) : a \in Bytes} }
    ELSE WalletLoop(key_root, key_fingerprint, network, b, i + 1, err)

keystore_check_wallet(key_root, key_fingerprint, network, b) ==
    IF ~b.header \/ b.lines = <<>>
    THEN {[fault |-> FALSE, rc |-> KEYSTORE_WALLET_ERR_PARSING]}
    ELSE { [fault |-> r = FAULT, rc |-> r]
           : r \in WalletLoop(key_root, key_fingerprint, network, b, 1,
                              KEYSTORE_WALLET_ERR_NOT_INCLUDED) }

----------------------------------------------------------------------------
(* Storage collaborator and keystore_add_wallet                            *)

\* The directory keystore_add_wallet and keystore_get_wallets_number name.
WalletDir(key_fingerprint, network) == <<"internal", key_fingerprint, network.name>>

\* storage_get_file_count: the files of a directory.
FileCount(files, dir) == Cardinality({k \in 1..Len(files) : files[k].dir = dir})

\* storage_push: append a new file, returning the assigned id.
StoragePush(files, dir, data) ==
    [files |-> Append(files, [dir |-> dir, id |-> FileCount(files, dir), data |-> data]),
     id |-> FileCount(files, dir)]

keystore_add_wallet(key_fingerprint, network, b) ==
    StoragePush(storage, WalletDir(key_fingerprint, network), b)

----------------------------------------------------------------------------
(* Inputs                                                                  *)

SeqsUpTo(S, n) == UNION {[1..k -> S] : k \in 0..n}

OwnFingerprint == Hash160Hex(KeyFromSeed("mnemonicA"))

\* origin.path of the keypaths of the proposals: m/84h/0.
KeypathPath == <<Hardened(84), U32(0)>>

KeypathItems == {[fingerprint |-> f, path |-> KeypathPath] : f \in {OwnFingerprint, ForeignFingerprint}}

\* A keypath map that is present holds at least one item.
KeypathMaps ==
    {NullKeypaths} \cup {Keypaths(items) : items \in SeqsUpTo(KeypathItems, MaxKeypaths) \ {<<>>}}

\* Inputs that vary in their keypaths, and inputs that vary in their witness UTXO.
PolicyInputs == {[keypaths |-> kp, witness_utxo |-> TRUE] : kp \in KeypathMaps}
SignInputs ==
    {[keypaths |-> kp, witness_utxo |-> w]
     : kp \in {NullKeypaths} \cup {Keypaths(<<item>>) : item \in KeypathItems},
       w \in BOOLEAN}

OutputScripts ==
    {[type |-> t, hash |-> h]
     : t \in {"P2WPKH", "P2SH", "P2PKH", "P2WSH"},
       h \in {PubkeyHash(KeyFromParentPath(KeyFromSeed("mnemonicA"), KeypathPath, 2)),
              RedeemHash(KeyFromParentPath(KeyFromSeed("mnemonicA"), KeypathPath, 2))}}
Outputs ==
    {[keypaths |-> kp, script |-> sc]
     : kp \in {NullKeypaths} \cup {Keypaths(items) : items \in SeqsUpTo(KeypathItems, 2) \ {<<>>}},
       sc \in OutputScripts}

Psbts ==
    {[inputs |-> ins, outputs |-> <<>>] : ins \in SeqsUpTo(PolicyInputs, MaxPolicyInputs)}
    \cup {[inputs |-> ins, outputs |-> <<>>] : ins \in SeqsUpTo(SignInputs, MaxSignInputs)}
    \cup {[inputs |-> <<>>, outputs |-> <<o>>] : o \in Outputs}

\* The path strings recorded in descriptors: "84h" and "x".
KeyPathStrings == {<<"8", "4", "h">>, <<"x">>}

\* The xpub strings a descriptor line may record for the path s.
LineXpubs(s) ==
    {r.xpub : r \in {q \in keystore_get_xpub(KeyFromSeed("mnemonicA"), <<"/">>, s, <<NUL>>, Mainnet, FALSE)
                           \cup keystore_get_xpub(KeyFromSeed("mnemonicA"), <<"/">>, s, <<NUL>>, Mainnet, TRUE)
                         : q.rc = "0"}}
    \cup {[ver |-> Mainnet.xpub, key |-> GarbageKey]}

BadLine == [ok |-> FALSE, fingerprint |-> "", path |-> <<>>, xpub |-> NoXpub]
Lines ==
    {BadLine} \cup
    UNION {{[ok |-> TRUE, fingerprint |-> f, path |-> s, xpub |-> x]
            : f \in {OwnFingerprint, ForeignFingerprint}, x \in LineXpubs(s)}
           : s \in KeyPathStrings}

BadBuf == [header |-> FALSE, n |-> 0, lines |-> <<>>]
Bufs ==
    {BadBuf} \cup
    {[header |-> TRUE, n |-> n, lines |-> ls]
     : n \in 0..MaxCosigners, ls \in SeqsUpTo(Lines, MaxCosigners)}

\* Path strings enumerated character by character.
Alphabet == {"m", "/", "h", "'", "1", "X"}
ShortPaths == SeqsUpTo(Alphabet, MaxLen)

\* Path strings built of numeric segments around the 2^31 and 2^32 limits,
\* with and without a hardening marker, a leading "m/" and a trailing "/".
SegmentDigits ==
    {<<"0">>,
     <<"4", "4">>,
     <<"2", "1", "4", "7", "4", "8", "3", "6", "4", "7">>,
     <<"2", "1", "4", "7", "4", "8", "3", "6", "4", "8">>,
     <<"4", "2", "9", "4", "9", "6", "7", "2", "9", "6">>,
     <<"4", "2", "9", "4", "9", "6", "7", "3", "4", "0">>}
Markers == {<<>>, <<"h">>, <<"'">>}
SegmentTexts == {d \o mk : d \in SegmentDigits, mk \in Markers}

RECURSIVE Join(_)
Join(segs) ==
    IF Len(segs) = 1 THEN segs[1] ELSE segs[1] \o <<"/">> \o Join(Tail(segs))

NumericPaths ==
    {lead \o Join(segs) \o trail
     : lead \in {<<>>, <<"m", "/">>},
       segs \in SeqsUpTo(SegmentTexts, MaxSegments) \ {<<>>},
       trail \in {<<>>, <<"/">>}}

\* "mX44h/0" and "m/84h/0h/0h/0/5".
ExamplePaths == {<<"m", "X", "4", "4", "h", "/", "0">>,
                 <<"m", "/", "8", "4", "h", "/", "0", "h", "/", "0", "h", "/", "0", "/", "5">>}

PathInputs == ShortPaths \cup NumericPaths \cup ExamplePaths

\* The path strings given to keystore_get_xpub and keystore_get_addr.
KeyPaths ==
    {<<"8", "4", "h">>,
     <<"m", "/", "8", "4", "h", "/", "0", "h", "/", "0", "h">>,
     <<"4", "9", "h", "/", "0">>,
     <<"4", "8", "h", "/", "0", "h", "/", "0", "h", "/", "2", "h">>,
     <<"4", "8", "h", "/", "0", "h", "/", "0", "h", "/", "1", "h">>,
     <<"4", "8", "h", "/", "0", "h", "/", "0", "h">>,
     <<"4", "4", "h", "/", "0", "h">>,
     <<"x">>,
     <<"m">>,
     <<>>}

----------------------------------------------------------------------------
(* Operations                                                              *)

NoCall == [name |-> "none"]

KeystoreInit == \E mnemonic \in Mnemonics \cup {NULL} : keystore_init(mnemonic)

GetXpub ==
    \E network \in Networks, use_slip132 \in BOOLEAN :
      \E r \in keystore_get_xpub(root, before, path, after, network, use_slip132) :
        /\ op' = [name |-> "keystore_get_xpub"]
        /\ ret' = r
        /\ UNCHANGED <<root, fingerprint, psbt, output, buf, storage, path, before, after>>

GetAddr ==
    \E network \in Networks, flag \in {KEYSTORE_BECH32_ADDRESS, KEYSTORE_BASE58_ADDRESS} :
      \E r \in keystore_get_addr(root, before, path, after, network, flag) :
        /\ op' = [name |-> "keystore_get_addr"]
        /\ ret' = r
        /\ UNCHANGED <<root, fingerprint, psbt, output, buf, storage, path, before, after>>

CheckPsbt ==
    \E r \in keystore_check_psbt(root, psbt) :
      /\ op' = [name |-> "keystore_check_psbt"]
      /\ ret' = r
      /\ UNCHANGED <<root, fingerprint, psbt, output, buf, storage, path, before, after>>

OutputIsChange ==
    \E i \in 0..1 :
      \E r \in keystore_output_is_change(root, psbt, i) :
        /\ op' = [name |-> "keystore_output_is_change"]
        /\ ret' = r
        /\ UNCHANGED <<root, fingerprint, psbt, output, buf, storage, path, before, after>>

SignPsbt ==
    \E r \in keystore_sign_psbt(root, psbt) :
      /\ op' = [name |-> "keystore_sign_psbt"]
      /\ ret' = [fault |-> r.fault, rc |-> r.rc]
      /\ output' = IF r.output # <<>> THEN r.output ELSE output
      /\ UNCHANGED <<root, fingerprint, psbt, buf, storage, path, before, after>>

CheckWallet ==
    \E network \in Networks :
      \E r \in keystore_check_wallet(root, fingerprint, network, buf) :
        /\ op' = [name |-> "keystore_check_wallet", network |-> network]
        /\ ret' = r
        /\ UNCHANGED <<root, fingerprint, psbt, output, buf, storage, path, before, after>>

AddWallet ==
    \E network \in Networks :
      /\ Len(storage) < MaxFiles
      /\ LET r == keystore_add_wallet(fingerprint, network, buf)
         IN /\ storage' = r.files
            /\ ret' = [fault |-> FALSE, rc |-> ToString(r.id)]
      /\ op' = [name |-> "keystore_add_wallet", network |-> network]
      /\ UNCHANGED <<root, fingerprint, psbt, output, buf, path, before, after>>

ParseDerivation ==
    /\ op' = [name |-> "parse_derivation"]
    /\ ret' = parse_derivation(before, path, after)
    /\ UNCHANGED <<root, fingerprint, psbt, output, buf, storage, path, before, after>>

----------------------------------------------------------------------------
(* Specifications                                                          *)

EmptyPsbt == [inputs |-> <<>>, outputs |-> <<>>]

InitKeystore ==
    /\ root = NullRoot
    /\ fingerprint = NoFingerprint
    /\ output = <<>>
    /\ storage = <<>>
    /\ op = NoCall
    /\ ret = [fault |-> FALSE, rc |-> "0"]

\* The keystore serving requests about one proposal.
Init ==
    /\ InitKeystore
    /\ psbt \in Psbts
    /\ buf = BadBuf
    /\ path = <<>> /\ before = <<>> /\ after = <<>>

Next == KeystoreInit \/ CheckPsbt \/ OutputIsChange \/ SignPsbt

Spec == Init /\ [][Next]_vars

\* The keystore validating and registering one wallet descriptor.
InitWallet ==
    /\ InitKeystore
    /\ psbt = EmptyPsbt
    /\ buf \in Bufs
    /\ path = <<>> /\ before = <<>> /\ after = <<>>

NextWallet == KeystoreInit \/ CheckWallet \/ AddWallet

SpecWallet == InitWallet /\ [][NextWallet]_vars

\* The keystore deriving extended public keys and addresses for one path.
InitKeys ==
    /\ InitKeystore
    /\ psbt = EmptyPsbt
    /\ buf = BadBuf
    /\ path \in KeyPaths
    /\ before \in {<<b>> : b \in Bytes}
    /\ after \in [1..MaxAfter -> Bytes]

NextKeys == KeystoreInit \/ GetXpub \/ GetAddr

SpecKeys == InitKeys /\ [][NextKeys]_vars

\* The parser applied to one path string in memory.
InitParse ==
    /\ InitKeystore
    /\ psbt = EmptyPsbt
    /\ buf = BadBuf
    /\ path \in PathInputs
    /\ before \in {<<b>> : b \in Bytes}
    /\ after \in [1..MaxAfter -> Bytes]

NextParse == ParseDerivation

SpecParse == InitParse /\ [][NextParse]_vars

----------------------------------------------------------------------------
(* Properties of keystore_check_psbt                                       *)

\* An input is signable when one of its keypaths carries the fingerprint.
Signable(input, fp) ==
    /\ ~input.keypaths.null
    /\ \E j \in 1..Len(input.keypaths.items) : input.keypaths.items[j].fingerprint = fp

SingleKeypath(input) == ~input.keypaths.null /\ Len(input.keypaths.items) = 1

PolicyChecked == op.name = "keystore_check_psbt" /\ root # NullRoot

\* C1: a proposal of single-keypath inputs of which at least one is signable
\* and at least one is not is answered MixedInputs, in whatever order the
\* two kinds of input appear.
C1_MixedInputsAnyOrder ==
    ( /\ PolicyChecked
      /\ \A i \in 1..Len(psbt.inputs) : SingleKeypath(psbt.inputs[i])
      /\ \E i \in 1..Len(psbt.inputs) : Signable(psbt.inputs[i], Hash160Hex(root))
      /\ \E i \in 1..Len(psbt.inputs) : ~Signable(psbt.inputs[i], Hash160Hex(root)) )
    => ret.rc = KEYSTORE_PSBTERR_MIXED_INPUTS

\* C2: a proposal none of whose inputs is signable (no inputs, inputs
\* without keypaths, inputs with one or several foreign keypaths) is answered
\* CannotSign.
C2_NoSignableInputCannotSign ==
    ( /\ PolicyChecked
      /\ \A i \in 1..Len(psbt.inputs) : ~Signable(psbt.inputs[i], Hash160Hex(root)) )
    => ret.rc = KEYSTORE_PSBTERR_CANNOT_SIGN

\* C3: a proposal with at least one input, all of them signable, is answered
\* Ok when every input carries exactly one keypath and UnsupportedPolicy when
\* some input carries more than one.
C3_AllSignable ==
    ( /\ PolicyChecked
      /\ Len(psbt.inputs) >= 1
      /\ \A i \in 1..Len(psbt.inputs) : Signable(psbt.inputs[i], Hash160Hex(root)) )
    => ret.rc = IF \A i \in 1..Len(psbt.inputs) : SingleKeypath(psbt.inputs[i])
                THEN "0"
                ELSE KEYSTORE_PSBTERR_UNSUPPORTED_POLICY

\* A check of two signable inputs, the second with two keypaths, was refused.
C3_Witness ==
    /\ PolicyChecked
    /\ Len(psbt.inputs) = 2
    /\ \A i \in 1..2 : Signable(psbt.inputs[i], Hash160Hex(root))
    /\ SingleKeypath(psbt.inputs[1])
    /\ Len(psbt.inputs[2].keypaths.items) = 2
    /\ ret.rc = KEYSTORE_PSBTERR_UNSUPPORTED_POLICY

----------------------------------------------------------------------------
(* Properties of keystore_sign_psbt                                        *)

MissingWitness(k) == k \in 1..Len(psbt.inputs) /\ ~psbt.inputs[k].witness_utxo

\* The signing of input j dereferences a pointer that is null.
NullDereference(j) == root = NullRoot \/ psbt.inputs[j].keypaths.null

\* C4: when some input has no witness UTXO the call does not succeed and the
\* output slot stays unwritten: it returns -1, unless it faulted on a null
\* root or keypath map of an earlier input; and a written output slot holds
\* a partial signature for every input of a proposal whose inputs all have
\* their witness UTXO.
C4_SignAllOrNothing ==
    /\ ( op.name = "keystore_sign_psbt" /\ (\E k \in 1..Len(psbt.inputs) : MissingWitness(k)) )
       => /\ output = <<>>
          /\ \/ ret.rc = "-1"
             \/ /\ ret.fault
                /\ \E k \in 1..Len(psbt.inputs) :
                     MissingWitness(k) /\ \E j \in 1..(k - 1) : NullDereference(j)
    /\ output # <<>>
       => /\ \A k \in 1..Len(psbt.inputs) : psbt.inputs[k].witness_utxo
          /\ Len(output[1].partial_sigs) = Len(psbt.inputs)
          /\ \A k \in 1..Len(psbt.inputs) : Cardinality(output[1].partial_sigs[k]) = 1

\* Signing stopped at the middle input of three, after the first was signed.
C4_Witness ==
    /\ op.name = "keystore_sign_psbt"
    /\ root # NullRoot
    /\ Len(psbt.inputs) = 3
    /\ psbt.inputs[1].witness_utxo /\ ~psbt.inputs[1].keypaths.null
    /\ ~psbt.inputs[2].witness_utxo
    /\ psbt.inputs[3].witness_utxo
    /\ ret.rc = "-1"
    /\ output = <<>>

----------------------------------------------------------------------------
(* Properties of the keystore without a root                               *)

RootOperations ==
    {"keystore_get_xpub", "keystore_get_addr", "keystore_check_psbt",
     "keystore_output_is_change", "keystore_sign_psbt"}

\* C5: while the root is absent, every operation that needs the root
\* returns an error: it neither faults nor returns a success value.
C5_AbsentRootFails ==
    ( root = NullRoot /\ op.name \in RootOperations )
    => ~ret.fault /\ ret.rc \notin {"0", "1"}

----------------------------------------------------------------------------
(* Properties of the wallet registry                                       *)

\* The plain and the SLIP132 encoding of the key this keystore derives at
\* the path of a descriptor line.
LocalXpubs(line, network) ==
    {r.xpub : r \in {q \in keystore_get_xpub(root, <<"/">>, line.path, <<NUL>>, network, FALSE)
                           \cup keystore_get_xpub(root, <<"/">>, line.path, <<NUL>>, network, TRUE)
                         : q.rc = "0"}}

\* Line k of the descriptor is an entry of this keystore whose recorded xpub
\* is neither encoding of the locally derived key.
MismatchLine(k, network) ==
    /\ k \in 1..Len(buf.lines) /\ k <= buf.n
    /\ buf.lines[k].ok
    /\ buf.lines[k].fingerprint = fingerprint
    /\ buf.lines[k].xpub \notin LocalXpubs(buf.lines[k], network)

Initialized == root # NullRoot /\ fingerprint = Hash160Hex(root)

\* C6: registering a descriptor with a mismatching entry of this keystore
\* fails with CosignerMismatch and stores nothing.
C6_RegisterRejectsMismatch ==
    ( /\ op.name = "keystore_add_wallet"
      /\ Initialized
      /\ buf.header
      /\ \E k \in 1..Len(buf.lines) :
           MismatchLine(k, op.network) /\ LocalXpubs(buf.lines[k], op.network) # {} )
    => /\ ret.rc = KEYSTORE_WALLET_ERR_WRONG_XPUB
       /\ \A f \in 1..Len(storage) :
            storage[f].dir # WalletDir(fingerprint, op.network) \/ storage[f].data # buf

\* C7: validation answers CosignerMismatch only for a descriptor with an
\* entry of this keystore whose recorded xpub differs from both the plain and
\* the SLIP132 encoding of the locally derived key.
C7_MismatchOnlyWhenBothDiffer ==
    ( /\ op.name = "keystore_check_wallet"
      /\ Initialized
      /\ ret.rc = KEYSTORE_WALLET_ERR_WRONG_XPUB )
    => \E k \in 1..Len(buf.lines) : MismatchLine(k, op.network)

----------------------------------------------------------------------------
(* Properties of parse_derivation                                          *)

Parsed == op.name = "parse_derivation"

\* C8: the parser returns a path or a failure for every string, without
\* decrementing its length below zero and without reading outside the string.
C8_ParserTotal ==
    Parsed => /\ ret.ret \in {"OK", NULL}
              /\ ~ret.underflow
              /\ ~ret.oob

ValidChar(c) == c \in {"0", "1", "2", "3", "4", "5", "6", "7", "8", "9", "/", "'", "h"}

\* C9: a string with a character that is not a digit, a separator or a
\* hardening marker after the leading 'm' (or anywhere, without a leading
\* 'm') is refused.
C9_InvalidCharacterFails ==
    ( /\ Parsed
      /\ \E k \in 1..Len(path) : ~ValidChar(path[k]) /\ (k > 1 \/ path[k] # "m") )
    => ret.ret = NULL

\* The text of the path without its leading "m/" and its trailing "/".
PathBody(s) ==
    LET t == IF Len(s) >= 2 /\ s[1] = "m" /\ s[2] = "/" THEN SubSeq(s, 3, Len(s)) ELSE s
    IN IF Len(t) >= 1 /\ t[Len(t)] = "/" THEN SubSeq(t, 1, Len(t) - 1) ELSE t

\* The segments a text falls into at its separators.
RECURSIVE Segments(_, _)
Segments(t, acc) ==
    IF t = <<>> THEN <<acc>>
    ELSE IF Head(t) = "/" THEN <<acc>> \o Segments(Tail(t), <<>>)
    ELSE Segments(Tail(t), Append(acc, Head(t)))

DigitValue(c) == strchr(c)

\* 2^31 - 1, the largest index of a path element.
MaxIndex == (2^15 - 1) * Half + (Half - 1)

\* The decimal value of a digit string, or -1 when it is 2^31 or more.
RECURSIVE DecimalValue(_, _)
DecimalValue(ds, acc) ==
    IF ds = <<>> THEN acc
    ELSE IF acc > (MaxIndex - DigitValue(Head(ds))) \div 10 THEN -1
    ELSE DecimalValue(Tail(ds), acc * 10 + DigitValue(Head(ds)))

IsMarked(seg) == seg # <<>> /\ seg[Len(seg)] \in {"h", "'"}
DigitsOf(seg) == IF IsMarked(seg) THEN SubSeq(seg, 1, Len(seg) - 1) ELSE seg

ElementHardened(e) == e.hi >= 2^15
ElementIndex(e) == (e.hi % 2^15) * Half + e.lo

\* C10: every element of a returned path carries the decimal value of its
\* segment's digits, which is below 2^31, and is hardened exactly when the
\* segment ends with a hardening marker.
C10_ElementsMatchSegments ==
    ( /\ Parsed
      /\ ret.ret = "OK"
      /\ \A k \in 1..Len(path) : ValidChar(path[k]) \/ (k = 1 /\ Len(path) >= 2 /\ path[2] = "/") )
    => LET segs == Segments(PathBody(path), <<>>)
       IN /\ Len(segs) = ret.derlen
          /\ \A j \in 1..ret.derlen :
               /\ DecimalValue(DigitsOf(segs[j]), 0) # -1
               /\ ElementIndex(ret.derivation[j]) = DecimalValue(DigitsOf(segs[j]), 0)
               /\ ElementHardened(ret.derivation[j]) <=> IsMarked(segs[j])

====
